---- MODULE Spec2Model ----
(***************************************************************************)
(* The receipt-list decoder of op-reth (src/src/cli/receipts.rs):          *)
(* Receipt::from_file reads an export file, drops its first byte, and      *)
(* Receipt::decode_receipt_vec walks the RLP item found in the rest,       *)
(* decoding each child as a 16-field Receipt or recursing into it.         *)
(*                                                                         *)
(* The file is a sequence of bytes (0..255).  An rlp::Rlp value is a view  *)
(* of a byte slice, modelled as the slice itself.  The operators named     *)
(* Rlp_*, PayloadInfo_*, BasicDecoder_* follow the rlp crate's methods     *)
(* that receipts.rs calls; the offset cache of Rlp::at is an optimisation  *)
(* that does not change its result and is left out.                        *)
(***************************************************************************)
EXTENDS Integers, Sequences, FiniteSets, TLC

\* ------------------------------------------------------------- results
Ok(v) == [ok |-> TRUE, v |-> v, err |-> "none"]

Err(e) == [ok |-> FALSE, v |-> <<>>, err |-> e]

\* Rust's bytes[from..to] on a 1-indexed sequence.
Slice(bytes, from, to) == SubSeq(bytes, from + 1, to)

\* ------------------------------------------------ program constants
\* reth_primitives::rpc::H256: a hash is exactly 32 bytes.
H256Len == 32

\* reth_primitives::U256: an unsigned integer of at most 32 bytes.
U256Len == 32

\* u64 fields: at most 8 bytes.
U64Len == 8

\* The number of fields Receipt::decode reads (val_at(0) .. val_at(15)).
ReceiptFields == 16

\* ------------------------------------------------------ rlp: headers
\* A fallible step `let x = f()?; rest` is written Rest(f(), ..): the
\* operator named *_then is the rest of the function after the `?`.
RECURSIVE decode_usize_from(_, _)
decode_usize_from(bytes, acc) ==
    IF bytes = <<>> THEN acc
    ELSE decode_usize_from(Tail(bytes), acc * 256 + Head(bytes))

\* usize::decode's closure: big-endian, no leading zero byte.
decode_usize(bytes) ==
    IF Len(bytes) > U64Len THEN Err("RlpIsTooBig")
    ELSE IF bytes[1] = 0 THEN Err("RlpInvalidIndirection")
    ELSE Ok(decode_usize_from(bytes, 0))

calculate_payload_info_then(value_len, header_len) ==
    IF ~value_len.ok THEN value_len
    ELSE IF value_len.v <= 55 THEN Err("RlpInvalidIndirection")
    ELSE Ok([header_len |-> header_len, value_len |-> value_len.v])

calculate_payload_info(header_bytes, len_of_len) ==
    IF Len(header_bytes) < 2 THEN Err("RlpIsTooShort")
    ELSE IF header_bytes[2] = 0 THEN Err("RlpDataLenWithZeroPrefix")
    ELSE IF Len(header_bytes) < 1 + len_of_len THEN Err("RlpIsTooShort")
    ELSE calculate_payload_info_then(
             decode_usize(Slice(header_bytes, 1, 1 + len_of_len)), 1 + len_of_len)

\* PayloadInfo::from: the header's length and the payload's, by the first byte.
PayloadInfo_from(header_bytes) ==
    IF header_bytes = <<>> THEN Err("RlpIsTooShort")
    ELSE IF header_bytes[1] <= 127 THEN Ok([header_len |-> 0, value_len |-> 1])
    ELSE IF header_bytes[1] <= 183
    THEN Ok([header_len |-> 1, value_len |-> header_bytes[1] - 128])
    ELSE IF header_bytes[1] <= 191
    THEN calculate_payload_info(header_bytes, header_bytes[1] - 183)
    ELSE IF header_bytes[1] <= 247
    THEN Ok([header_len |-> 1, value_len |-> header_bytes[1] - 192])
    ELSE calculate_payload_info(header_bytes, header_bytes[1] - 247)

PayloadInfo_total(pi) == pi.header_len + pi.value_len

payload_info_then(item, bytes) ==
    IF ~item.ok THEN item
    ELSE IF PayloadInfo_total(item.v) <= Len(bytes) THEN item
    ELSE Err("RlpIsTooShort")

\* BasicDecoder::payload_info: the header, and the item must fit the slice.
BasicDecoder_payload_info(bytes) == payload_info_then(PayloadInfo_from(bytes), bytes)

\* ------------------------------------------------------ rlp: the view
Rlp_is_null(bytes) == bytes = <<>>

Rlp_is_empty(bytes) == ~Rlp_is_null(bytes) /\ (bytes[1] = 192 \/ bytes[1] = 128)

Rlp_is_list(bytes) == ~Rlp_is_null(bytes) /\ bytes[1] >= 192

Rlp_is_data(bytes) == ~Rlp_is_null(bytes) /\ bytes[1] < 192

\* Rlp::consume_items: skip `items` encoded items at the head of bytes.
RECURSIVE Rlp_consume_items(_, _)
RECURSIVE consume_items_then(_, _, _)
consume_items_then(i, bytes, items) ==
    IF ~i.ok THEN i
    ELSE Rlp_consume_items(Slice(bytes, PayloadInfo_total(i.v), Len(bytes)), items - 1)

Rlp_consume_items(bytes, items) ==
    IF items = 0 THEN Ok(bytes)
    ELSE consume_items_then(BasicDecoder_payload_info(bytes), bytes, items)

\* Rlp::at, the end: the child is a view of exactly its own bytes.
at_found_then(found, bytes) ==
    IF ~found.ok THEN found
    ELSE Ok(Slice(bytes, 0, PayloadInfo_total(found.v)))

at_skipped_then(rest) ==
    IF ~rest.ok THEN rest
    ELSE at_found_then(BasicDecoder_payload_info(rest.v), rest.v)

\* Rlp::consume_list_payload, then the skip of `index` children.
at_payload_then(item, bytes, index) ==
    IF ~item.ok THEN item
    ELSE at_skipped_then(
             Rlp_consume_items(
                 Slice(bytes, item.v.header_len, PayloadInfo_total(item.v)), index))

\* Rlp::at(index): the index-th child of a list.
Rlp_at(bytes, index) ==
    IF ~Rlp_is_list(bytes) THEN Err("RlpExpectedToBeList")
    ELSE at_payload_then(BasicDecoder_payload_info(bytes), bytes, index)

data_then(pi, bytes) ==
    IF ~pi.ok THEN pi
    ELSE Ok(Slice(bytes, pi.v.header_len, PayloadInfo_total(pi.v)))

\* Rlp::data: the payload bytes of the item, whatever its kind.
Rlp_data(bytes) == data_then(BasicDecoder_payload_info(bytes), bytes)

decode_value_long_then(len, bytes, begin_of_value) ==
    IF ~len.ok THEN len
    ELSE IF Len(bytes) < begin_of_value + len.v
    THEN Err("RlpInconsistentLengthAndData")
    ELSE Ok(Slice(bytes, begin_of_value, begin_of_value + len.v))

\* BasicDecoder::decode_value: the bytes of a string item handed to the closure.
BasicDecoder_decode_value(bytes) ==
    IF bytes = <<>> THEN Err("RlpIsTooShort")
    ELSE IF bytes[1] <= 127 THEN Ok(<<bytes[1]>>)
    ELSE IF bytes[1] <= 183 THEN
         IF Len(bytes) < 1 + bytes[1] - 128
         THEN Err("RlpInconsistentLengthAndData")
         ELSE IF bytes[1] = 129 /\ bytes[2] < 128 THEN Err("RlpInvalidIndirection")
         ELSE Ok(Slice(bytes, 1, 1 + bytes[1] - 128))
    ELSE IF bytes[1] <= 191 THEN
         IF Len(bytes) < 1 + (bytes[1] - 183)
         THEN Err("RlpInconsistentLengthAndData")
         ELSE decode_value_long_then(
                  decode_usize(Slice(bytes, 1, 1 + (bytes[1] - 183))),
                  bytes, 1 + (bytes[1] - 183))
    ELSE Err("RlpExpectedToBeData")

\* ------------------------------------------- rlp: Decodable of the fields
\* The closure of <u8 as Decodable>::decode.
u8_closure(d) ==
    IF ~d.ok THEN d
    ELSE IF Len(d.v) = 1 /\ d.v[1] # 0 THEN Ok(d.v[1])
    ELSE IF Len(d.v) = 0 THEN Ok(0)
    ELSE IF Len(d.v) = 1 THEN Err("RlpInvalidIndirection")
    ELSE Err("RlpIsTooBig")

u8_decode(bytes) == u8_closure(BasicDecoder_decode_value(bytes))

\* The closure of <u64 as Decodable>::decode: big-endian, at most 8 bytes;
\* 0 or 1 bytes are decoded as a u8.
u64_closure(d) ==
    IF ~d.ok THEN d
    ELSE IF Len(d.v) <= 1 THEN u8_closure(d)
    ELSE IF Len(d.v) <= U64Len THEN
         IF d.v[1] = 0 THEN Err("RlpInvalidIndirection")
         ELSE Ok(decode_usize_from(d.v, 0))
    ELSE Err("RlpIsTooBig")

u64_decode(bytes) == u64_closure(BasicDecoder_decode_value(bytes))

\* <Vec<u8> as Decodable>::decode
bytes_decode(bytes) == BasicDecoder_decode_value(bytes)

\* core::str::from_utf8: whether the bytes are well-formed UTF-8.
IsCont(b) == b >= 128 /\ b <= 191

RECURSIVE from_utf8_ok(_)
from_utf8_ok(b) ==
    IF b = <<>> THEN TRUE
    ELSE IF b[1] <= 127 THEN from_utf8_ok(Tail(b))
    ELSE IF b[1] >= 194 /\ b[1] <= 223 THEN
         Len(b) >= 2 /\ IsCont(b[2]) /\ from_utf8_ok(Slice(b, 2, Len(b)))
    ELSE IF b[1] >= 224 /\ b[1] <= 239 THEN
         /\ Len(b) >= 3 /\ IsCont(b[2]) /\ IsCont(b[3])
         /\ (b[1] = 224 => b[2] >= 160)
         /\ (b[1] = 237 => b[2] <= 159)
         /\ from_utf8_ok(Slice(b, 3, Len(b)))
    ELSE IF b[1] >= 240 /\ b[1] <= 244 THEN
         /\ Len(b) >= 4 /\ IsCont(b[2]) /\ IsCont(b[3]) /\ IsCont(b[4])
         /\ (b[1] = 240 => b[2] >= 144)
         /\ (b[1] = 244 => b[2] <= 143)
         /\ from_utf8_ok(Slice(b, 4, Len(b)))
    ELSE FALSE

String_closure(d) ==
    IF ~d.ok THEN d
    ELSE IF from_utf8_ok(d.v) THEN d
    ELSE Err("RlpExpectedToBeData")

\* <String as Decodable>::decode: the string is kept as its UTF-8 bytes.
String_decode(bytes) == String_closure(BasicDecoder_decode_value(bytes))

H256_closure(d) ==
    IF ~d.ok THEN d
    ELSE IF Len(d.v) < H256Len THEN Err("RlpIsTooShort")
    ELSE IF Len(d.v) > H256Len THEN Err("RlpIsTooBig")
    ELSE d

\* <H256 as Decodable>::decode: exactly 32 bytes.
H256_decode(bytes) == H256_closure(BasicDecoder_decode_value(bytes))

\* A 256-bit value is kept as its big-endian digits without leading zeros.
RECURSIVE StripZeros(_)
StripZeros(b) ==
    IF b = <<>> THEN b
    ELSE IF b[1] = 0 THEN StripZeros(Tail(b))
    ELSE b

try_from_be_slice(d) ==
    IF ~d.ok THEN d
    ELSE IF Len(StripZeros(d.v)) > U256Len
    THEN Err("RLP integer value too large for Uint.")
    ELSE Ok(StripZeros(d.v))

\* <U256 as Decodable>::decode: Uint::try_from_be_slice(rlp.data()?).
U256_decode(bytes) == try_from_be_slice(Rlp_data(bytes))

\* The type of the field Receipt::decode reads at each index.
FieldType(index) ==
    IF index = 0 THEN "u8"
    ELSE IF index \in {1, 4} THEN "bytes"
    ELSE IF index \in {2, 3, 8, 11} THEN "u64"
    ELSE IF index = 5 THEN "raw"
    ELSE IF index \in {6, 9} THEN "H256"
    ELSE IF index \in {7, 15} THEN "String"
    ELSE "U256"

\* Rlp::as_val::<T>() for the field's type; rlp.at(5)?.as_raw() for logs.
as_val(item, ty) ==
    IF ~item.ok THEN item
    ELSE IF ty = "u8" THEN u8_decode(item.v)
    ELSE IF ty = "bytes" THEN bytes_decode(item.v)
    ELSE IF ty = "u64" THEN u64_decode(item.v)
    ELSE IF ty = "raw" THEN Ok(item.v)
    ELSE IF ty = "H256" THEN H256_decode(item.v)
    ELSE IF ty = "String" THEN String_decode(item.v)
    ELSE U256_decode(item.v)

\* Rlp::val_at::<T>(index) is at(index)?.as_val::<T>().
Rlp_val_at(bytes, index) == as_val(Rlp_at(bytes, index), FieldType(index))

\* ----------------------------------------------------------- Receipt
\* <Receipt as rlp::Decodable>::decode: fields 0..15 in order, the first
\* failure returned; a Receipt is the tuple of its 16 field values.
RECURSIVE Receipt_fields(_, _, _)
RECURSIVE Receipt_fields_then(_, _, _, _)
Receipt_fields_then(f, rlp, index, acc) ==
    IF ~f.ok THEN f
    ELSE Receipt_fields(rlp, index + 1, Append(acc, f.v))

Receipt_fields(rlp, index, acc) ==
    IF index = ReceiptFields THEN Ok(acc)
    ELSE Receipt_fields_then(Rlp_val_at(rlp, index), rlp, index, acc)

Receipt_decode(rlp) == Receipt_fields(rlp, 0, <<>>)

\* Receipt::decode_receipt_vec.  rlp.iter() yields at(0), at(1), ... and ends
\* at the first index where at() fails (RlpIterator::next is at(index).ok()).
RECURSIVE decode_receipt_vec(_)
RECURSIVE decode_receipt_loop(_, _, _)
RECURSIVE loop_item(_, _, _, _)
RECURSIVE loop_decoded(_, _, _, _, _)
RECURSIVE loop_inner(_, _, _, _)

\* A slip: the receipts of the inner list are put before those already found.
loop_inner_prepend(inner_vec, rlp, index, receipts) ==
    IF ~inner_vec.ok THEN inner_vec
    ELSE decode_receipt_loop(rlp, index + 1, inner_vec.v \o receipts)

\* lines 132..134: receipts.append(&mut decode_receipt_vec(&item)?); continue
loop_inner(inner_vec, rlp, index, receipts) ==
    IF ~inner_vec.ok THEN inner_vec
    ELSE decode_receipt_loop(rlp, index + 1, receipts \o inner_vec.v)

\* A slip: a decoded receipt is pushed and the child is walked as well.
loop_decoded_descend(r, item, rlp, index, receipts) ==
    IF r.ok
    THEN loop_inner(decode_receipt_vec(item), rlp, index, Append(receipts, r.v))
    ELSE loop_inner(decode_receipt_vec(item), rlp, index, receipts)

\* A slip: the error of a failed direct decode is returned when the child is
\* no list, instead of being absorbed by walking the child.
loop_decoded_strict(r, item, rlp, index, receipts) ==
    IF r.ok THEN decode_receipt_loop(rlp, index + 1, Append(receipts, r.v))
    ELSE IF Rlp_is_list(item) THEN loop_inner(decode_receipt_vec(item), rlp, index, receipts)
    ELSE r

\* lines 129..136: a decoded receipt is pushed, anything else is walked.
loop_decoded(r, item, rlp, index, receipts) ==
    IF r.ok THEN decode_receipt_loop(rlp, index + 1, Append(receipts, r.v))
    ELSE loop_inner(decode_receipt_vec(item), rlp, index, receipts)

\* A slip: `break` for `continue`, the walk ends at the first empty item.
loop_item_break(item, rlp, index, receipts) ==
    IF ~item.ok THEN Ok(receipts)
    ELSE IF Rlp_is_empty(item.v) THEN Ok(receipts)
    ELSE loop_decoded(Receipt_decode(item.v), item.v, rlp, index, receipts)

\* A slip: the error that ends the iteration is returned instead of swallowed.
loop_item_strict(item, rlp, index, receipts) ==
    IF ~item.ok THEN (IF item.err = "RlpIsTooShort" THEN Ok(receipts) ELSE item)
    ELSE IF Rlp_is_empty(item.v) THEN decode_receipt_loop(rlp, index + 1, receipts)
    ELSE loop_decoded(Receipt_decode(item.v), item.v, rlp, index, receipts)

\* lines 125..128: the iterator's next item; an empty item is skipped.
loop_item(item, rlp, index, receipts) ==
    IF ~item.ok THEN Ok(receipts)
    ELSE IF Rlp_is_empty(item.v) THEN decode_receipt_loop(rlp, index + 1, receipts)
    ELSE loop_decoded(Receipt_decode(item.v), item.v, rlp, index, receipts)

decode_receipt_loop(rlp, index, receipts) ==
    loop_item(Rlp_at(rlp, index), rlp, index, receipts)

decode_receipt_vec(rlp) == decode_receipt_loop(rlp, 0, <<>>)

\* Receipt::from_file, line 144: &data[1..] panics when data is empty.
DropTag(data) ==
    IF Len(data) < 1 THEN Err("panic: range start index 1 out of range")
    ELSE Ok(Slice(data, 1, Len(data)))

\* Receipt::from_file, lines 145..150: the warnings logged about the root.
Warnings(rlp_data) ==
    (IF Rlp_is_empty(rlp_data) THEN {"rlp data is empty!"} ELSE {})
    \cup (IF Rlp_is_null(rlp_data) THEN {"rlp data is null!"} ELSE {})

NoOutcome == [kind |-> "none", receipts |-> <<>>, err |-> "none"]

\* Receipt::from_file, lines 154..155: the error is mapped with eyre!.
map_err(receipts) ==
    IF receipts.ok
    THEN [kind |-> "ok", receipts |-> receipts.v, err |-> "none"]
    ELSE [kind |-> "err", receipts |-> <<>>, err |-> receipts.err]

\* A slip: the root itself is tried as a receipt before its children.
Returned_root_first(rlp_data) ==
    IF Receipt_decode(rlp_data).ok
    THEN [kind |-> "ok", receipts |-> <<Receipt_decode(rlp_data).v>>, err |-> "none"]
    ELSE map_err(decode_receipt_vec(rlp_data))

Returned(rlp_data) == map_err(decode_receipt_vec(rlp_data))

from_file_then(rlp_data) ==
    IF ~rlp_data.ok THEN [kind |-> "panic", receipts |-> <<>>, err |-> rlp_data.err]
    ELSE Returned(rlp_data.v)

\* Receipt::from_file on the bytes read from the file.
from_file(data) == from_file_then(DropTag(data))

\* ------------------------------------------------ the export file's items
\* The file holds one RLP item: a byte string (t = "S") or a list of items
\* (t = "L").  role and rec record what the exporter meant by it: the Receipt
\* a 16-field list stands for, a placeholder, a container, a stray scalar.
MaxChildren == 2

MaxWrap == 2

MaxCut == 2

Scalar(b, role) == [t |-> "S", b |-> b, c |-> <<>>, role |-> role, rec |-> <<>>]

List(c, role, rec) == [t |-> "L", b |-> <<>>, c |-> c, role |-> role, rec |-> rec]

NoItem == [t |-> "N", b |-> <<>>, c |-> <<>>, role |-> "none", rec |-> <<>>]

RECURSIVE to_be(_)
to_be(n) == IF n = 0 THEN <<>> ELSE Append(to_be(n \div 256), n % 256)

RlpHeader(base, len) ==
    IF len <= 55 THEN <<base + len>>
    ELSE <<base + 55 + Len(to_be(len))>> \o to_be(len)

RECURSIVE Encode(_)
RECURSIVE EncodeAll(_)
EncodeAll(items) ==
    IF items = <<>> THEN <<>> ELSE Encode(Head(items)) \o EncodeAll(Tail(items))

Encode(item) ==
    IF item.t = "N" THEN <<>>
    ELSE IF item.t = "S" THEN
         IF Len(item.b) = 1 /\ item.b[1] < 128 THEN item.b
         ELSE RlpHeader(128, Len(item.b)) \o item.b
    ELSE LET payload == EncodeAll(item.c) IN
         RlpHeader(192, Len(payload)) \o payload

Fill(n, x) == [i \in 1..n |-> x]

\* The 16 field items of a receipt with the values v (v[6] is the logs item).
FieldItems(v) ==
    << Scalar(to_be(v[1]), "field"), Scalar(v[2], "field"),
       Scalar(to_be(v[3]), "field"), Scalar(to_be(v[4]), "field"),
       Scalar(v[5], "field"), v[6],
       Scalar(v[7], "field"), Scalar(v[8], "field"),
       Scalar(to_be(v[9]), "field"), Scalar(v[10], "field"),
       Scalar(v[11], "field"), Scalar(to_be(v[12]), "field"),
       Scalar(v[13], "field"), Scalar(v[14], "field"),
       Scalar(v[15], "field"), Scalar(v[16], "field") >>

\* The Receipt the decoder is to produce for it: logs is the raw encoding.
ReceiptOf(v) == [v EXCEPT ![6] = Encode(v[6])]

ReceiptItem(v) == List(FieldItems(v), "receipt", ReceiptOf(v))

Placeholder == Scalar(<<>>, "placeholder")

EmptyList == List(<<>>, "container", <<>>)

\* type 0, status 1, cumulative gas 21000, gas 21000, index 0, no logs.
V1 ==
    << 0, <<>>, 1, 21000, <<>>, Placeholder,
       Fill(H256Len, 171), <<48, 120>>, 21000, Fill(H256Len, 205),
       <<>>, 0, <<>>, <<>>, <<>>, <<>> >>

R1 == ReceiptItem(V1)

\* A receipt whose logs field (5) is itself a receipt-shaped list.
V2 ==
    << 2, <<1, 2>>, 0, 300, <<255>>, R1,
       Fill(H256Len, 17), <<97, 195, 169>>, 7, Fill(H256Len, 34),
       <<1, 0>>, 65536, <<9>>, <<>>, <<3, 232>>, <<49>> >>

R2 == ReceiptItem(V2)

\* A stray non-empty scalar where a receipt or a list is expected.
Stray == Scalar(<<104, 105>>, "scalar")

\* 17 children, the first 16 of them the fields of V1.
Long17 == List(Append(FieldItems(V1), Scalar(<<7>>, "field")), "long", ReceiptOf(V1))

\* 15 children: the fields of V1 without the last.
Short15 == List(SubSeq(FieldItems(V1), 1, 15), "short", <<>>)

\* 15 children: the fields of V1 without the first.
Tail15 == List(Tail(FieldItems(V1)), "short", <<>>)

Container(c) == List(c, "container", <<>>)

RECURSIVE Wrap(_, _)
Wrap(item, k) == IF k = 0 THEN item ELSE Container(<<Wrap(item, k - 1)>>)

SeqsOf(S, lo, hi) == UNION {[1..n -> S] : n \in lo..hi}

\* ------------------------------------------------------------ inputs
\* The format tag the exporter writes as byte 0.
FormatTag == <<1>>

Leaves == {R1, R2, Placeholder, EmptyList, Stray, Long17}

Inner == {R1, R2, Placeholder, Stray}

\* Root lists of up to MaxChildren children.
FlatRoots == {Container(c) : c \in SeqsOf(Leaves, 0, MaxChildren)}

\* A group of up to MaxChildren children under up to MaxWrap singleton
\* lists, and the lists of 15 fields.
Groups ==
    {Wrap(Container(c), k) : c \in SeqsOf(Inner, 1, MaxChildren), k \in 0..MaxWrap}
    \cup {Short15, Tail15}

\* A group alone under the root, or with a sibling receipt after or before it.
NestedRoots ==
    {Container(<<g>>) : g \in Groups}
    \cup {Container(<<g, R1>>) : g \in Groups}
    \cup {Container(<<R2, g>>) : g \in Groups}

\* Roots that are not a list of entries: nothing, scalars, a receipt itself.
OddRoots == {NoItem, Placeholder, Stray, Scalar(<<5>>, "scalar"), R1, R2, Tail15}

Trees == FlatRoots \cup NestedRoots \cup OddRoots

\* The file the exporter wrote for a tree, with its last cut bytes missing.
FileOf(t) == FormatTag \o Encode(t)

Truncated(bytes, n) == SubSeq(bytes, 1, Len(bytes) - n)

\* A cut leaves at least the first byte of the encoded item; the files of
\* nested roots are kept whole.
Cuts(t) ==
    IF t \in NestedRoots THEN {0}
    ELSE {n \in 0..MaxCut : n = 0 \/ n < Len(Encode(t))}

Inputs ==
    UNION {{[tree |-> t, cut |-> n, readable |-> TRUE, file |-> Truncated(FileOf(t), n)] :
               n \in Cuts(t)} : t \in Trees}
    \cup {[tree |-> NoItem, cut |-> 0, readable |-> r, file |-> <<>>] : r \in BOOLEAN}

\* ------------------------------------------------------- the program
VARIABLES
    tree,       \* the item the exporter encoded into the file
    cut,        \* how many bytes are missing from the end of the file
    readable,   \* whether std::fs::read succeeds
    file,       \* the bytes of the file
    pc,         \* where Receipt::from_file stands
    rlp_data,   \* the view &data[1..]
    warnings,   \* what from_file logged at warn level
    outcome,    \* what from_file returned, or that it panicked
    stack       \* the calls of decode_receipt_vec in progress, innermost last

vars == <<tree, cut, readable, file, pc, rlp_data, warnings, outcome, stack>>

Init ==
    /\ \E in \in Inputs :
          /\ tree = in.tree
          /\ cut = in.cut
          /\ readable = in.readable
          /\ file = in.file
    /\ pc = "read"
    /\ rlp_data = <<>>
    /\ warnings = {}
    /\ outcome = NoOutcome
    /\ stack = <<>>

\* line 143: let data = std::fs::read(&path)?;
ReadFile ==
    /\ pc = "read"
    /\ IF readable
       THEN pc' = "slice" /\ outcome' = outcome
       ELSE pc' = "done" /\ outcome' = [kind |-> "err", receipts |-> <<>>, err |-> "IoError"]
    /\ UNCHANGED <<tree, cut, readable, file, rlp_data, warnings, stack>>

\* line 144: let rlp_data = rlp::Rlp::new(&data[1..]);
NewRlp ==
    /\ pc = "slice"
    /\ IF DropTag(file).ok
       THEN pc' = "log" /\ rlp_data' = DropTag(file).v /\ outcome' = outcome
       ELSE /\ pc' = "done"
            /\ rlp_data' = rlp_data
            /\ outcome' = from_file_then(DropTag(file))
    /\ UNCHANGED <<tree, cut, readable, file, warnings, stack>>

\* lines 145..153: the checks of the root that only log.
LogRoot ==
    /\ pc = "log"
    /\ warnings' = Warnings(rlp_data)
    /\ pc' = "decode"
    /\ UNCHANGED <<tree, cut, readable, file, rlp_data, outcome, stack>>

\* lines 154..155: decode_receipt_vec(&rlp_data).map_err(..)?; Ok(receipts)
DecodeRoot ==
    /\ pc = "decode"
    /\ outcome' = Returned(rlp_data)
    /\ pc' = "done"
    /\ UNCHANGED <<tree, cut, readable, file, rlp_data, warnings, stack>>

Next == ReadFile \/ NewRlp \/ LogRoot \/ DecodeRoot

Spec == Init /\ [][Next]_vars

\* ------------------------------------------- decode_receipt_vec, step by step
\* The same walk with its call stack explicit: one frame per call in
\* progress, holding the list walked, the iterator's position, the receipts
\* collected so far and the positions the iterator has yielded.
Frame(rlp) == [rlp |-> rlp, index |-> 0, receipts |-> <<>>, seen |-> <<>>]

Top == stack[Len(stack)]

\* line 125: the iterator's next item is rlp.at(index).ok().
NextItem == Rlp_at(Top.rlp, Top.index)

Advance(frame, receipts) ==
    [frame EXCEPT !.index = @ + 1, !.receipts = receipts]

Yielded(frame) == [frame EXCEPT !.seen = Append(@, frame.index)]

\* lines 154 and 123..124: from_file calls decode_receipt_vec on the root.
Call ==
    /\ pc = "decode"
    /\ stack' = <<Frame(rlp_data)>>
    /\ pc' = "walk"
    /\ UNCHANGED <<tree, cut, readable, file, rlp_data, warnings, outcome>>

\* lines 126..128: an empty item is skipped.
SkipEmpty ==
    /\ pc = "walk"
    /\ NextItem.ok
    /\ Rlp_is_empty(NextItem.v)
    /\ stack' = [stack EXCEPT ![Len(stack)] = Advance(Yielded(Top), Top.receipts)]
    /\ UNCHANGED <<tree, cut, readable, file, pc, rlp_data, warnings, outcome>>

\* lines 129 and 136: the item decodes as a receipt, which is pushed.
PushReceipt ==
    /\ pc = "walk"
    /\ NextItem.ok
    /\ ~Rlp_is_empty(NextItem.v)
    /\ Receipt_decode(NextItem.v).ok
    /\ stack' = [stack EXCEPT ![Len(stack)] =
                     Advance(Yielded(Top), Append(Top.receipts, Receipt_decode(NextItem.v).v))]
    /\ UNCHANGED <<tree, cut, readable, file, pc, rlp_data, warnings, outcome>>

\* A slip: the nested call is made on the list being walked, not on the item.
Descend_same_list ==
    /\ pc = "walk"
    /\ NextItem.ok
    /\ ~Rlp_is_empty(NextItem.v)
    /\ ~Receipt_decode(NextItem.v).ok
    /\ stack' = Append([stack EXCEPT ![Len(stack)] = Yielded(Top)], Frame(Top.rlp))
    /\ UNCHANGED <<tree, cut, readable, file, pc, rlp_data, warnings, outcome>>

\* line 132: the item does not decode, decode_receipt_vec is called on it.
Descend ==
    /\ pc = "walk"
    /\ NextItem.ok
    /\ ~Rlp_is_empty(NextItem.v)
    /\ ~Receipt_decode(NextItem.v).ok
    /\ stack' = Append([stack EXCEPT ![Len(stack)] = Yielded(Top)], Frame(NextItem.v))
    /\ UNCHANGED <<tree, cut, readable, file, pc, rlp_data, warnings, outcome>>

\* line 138: the iterator is exhausted, Ok(receipts) is returned: to the
\* caller's append and continue (lines 132..134), or to from_file (154..155).
Return ==
    /\ pc = "walk"
    /\ ~NextItem.ok
    /\ IF Len(stack) = 1
       THEN /\ stack' = <<>>
            /\ outcome' = map_err(Ok(Top.receipts))
            /\ pc' = "done"
       ELSE /\ stack' = [SubSeq(stack, 1, Len(stack) - 1) EXCEPT ![Len(stack) - 1] =
                             Advance(@, @.receipts \o Top.receipts)]
            /\ outcome' = outcome
            /\ pc' = pc
    /\ UNCHANGED <<tree, cut, readable, file, rlp_data, warnings>>

NextWalk ==
    ReadFile \/ NewRlp \/ LogRoot \/ Call \/ SkipEmpty \/ PushReceipt \/ Descend \/ Return

\* The steps of a walk in progress.
Walk == SkipEmpty \/ PushReceipt \/ Descend \/ Return

\* A walk in progress always has a frame, and exactly one of its steps can be
\* taken: the guards split on the iterator's next item.
WalkEnabled == (pc = "walk") <=> (stack # <<>>)

\* from_file is sequential code: a step that can be taken is taken.  The last
\* conjunct is WF_vars(Walk) written out, with pc = "walk" for
\* ENABLED <<Walk>>_vars (WalkEnabled).
SpecWalk ==
    /\ Init
    /\ [][NextWalk]_vars
    /\ WF_vars(ReadFile \/ NewRlp \/ LogRoot \/ Call)
    /\ ([]<>(pc # "walk") \/ []<><<Walk>>_vars)

\* ------------------------------------------------------------ claims
\* A finished run on the whole file as the exporter wrote it.
Done == pc = "done"

Whole == Done /\ readable /\ cut = 0 /\ tree.t # "N"

OkWith(receipts) == [kind |-> "ok", receipts |-> receipts, err |-> "none"]

\* The receipts of a tree of valid receipts, containers and placeholders,
\* depth first and left to right.
RECURSIVE ValidReceipts(_)
ValidReceipts(items) ==
    IF items = <<>> THEN <<>>
    ELSE (IF Head(items).role = "receipt" THEN <<Head(items).rec>>
          ELSE ValidReceipts(Head(items).c))
         \o ValidReceipts(Tail(items))

RECURSIVE AllValid(_)
AllValid(items) ==
    \A i \in DOMAIN items :
        \/ items[i].role \in {"receipt", "placeholder"}
        \/ items[i].role = "container" /\ AllValid(items[i].c)

ValidTree == tree.role = "container" /\ AllValid(tree.c)

\* C1: for a root list made only of valid receipts, container lists and empty
\* placeholders, the decode returns exactly the valid receipts of the tree in
\* depth-first, left-to-right order, whatever the nesting.
C1_DocumentOrder == (Whole /\ ValidTree) => outcome = OkWith(ValidReceipts(tree.c))

\* List[List[r1, r2], r3] came out as [r1, r2, r3].
C1_Witness ==
    /\ Whole
    /\ tree = Container(<<Container(<<R1, R2>>), R1>>)
    /\ outcome.receipts = <<R1.rec, R2.rec, R1.rec>>

\* Whether a non-empty scalar stands where a receipt or a list is expected:
\* as a child of the root or of a container list.
RECURSIVE HasStray(_)
HasStray(items) ==
    \E i \in DOMAIN items :
        \/ items[i].role = "scalar"
        \/ items[i].role = "container" /\ HasStray(items[i].c)

\* C2: a non-empty scalar child of the root or of a container list makes the
\* whole decode fail with MalformedReceiptEntry; it is never silently dropped.
C2_StrayScalarFails ==
    (Whole /\ tree.role = "container" /\ HasStray(tree.c))
        => outcome.kind = "err" /\ outcome.err = "MalformedReceiptEntry"

\* The names under which a truncated buffer may be reported.
TruncationErrors == {"TruncatedInput", "RlpIsTooShort"}

\* C3: when bytes are missing from the end of the buffer, so that an item's
\* declared length exceeds what remains, the decode fails with TruncatedInput
\* and returns no receipt sequence.
C3_TruncationFails ==
    (Done /\ readable /\ cut > 0)
        => outcome.kind = "err" /\ outcome.err \in TruncationErrors

\* The item at a path of child positions below an item.
RECURSIVE Sub(_, _)
Sub(item, path) ==
    IF path = <<>> THEN item ELSE Sub(item.c[Head(path)], Tail(path))

\* Whether a child list fails direct receipt decode.
FailsDirectDecode(item) == item.t = "L" /\ ~Receipt_decode(Encode(item)).ok

\* The paths of the lists walked as containers: the root, and below a walked
\* list every child list that fails direct receipt decode.
RECURSIVE WalkedPaths(_)
WalkedPaths(item) ==
    {<<>>} \cup
    UNION {{<<i>> \o p : p \in WalkedPaths(item.c[i])} :
              i \in {j \in DOMAIN item.c : FailsDirectDecode(item.c[j])}}

InsertChild(c, pos) == SubSeq(c, 1, pos) \o <<Placeholder>> \o SubSeq(c, pos + 1, Len(c))

\* The item with a zero-length scalar put at position pos of the list at path.
RECURSIVE InsertAt(_, _, _)
InsertAt(item, path, pos) ==
    IF path = <<>> THEN [item EXCEPT !.c = InsertChild(item.c, pos)]
    ELSE [item EXCEPT !.c[Head(path)] = InsertAt(item.c[Head(path)], Tail(path), pos)]

\* Every walked list with every position among its children.
Insertions(item) ==
    UNION {{<<p, pos>> : pos \in 0..Len(Sub(item, p).c)} : p \in WalkedPaths(item)}

AfterInsertion(e) == from_file(FileOf(InsertAt(tree, e[1], e[2])))

\* The list is the root, or it fails direct receipt decode with the
\* placeholder in it as it did without.
StillWalked(e) ==
    e[1] = <<>> \/ FailsDirectDecode(Sub(InsertAt(tree, e[1], e[2]), e[1]))

\* C4 as stated: a zero-length scalar inserted at any position of any list
\* walked as a container leaves the returned receipt sequence unchanged.
C4_AnyInsertion ==
    (Whole /\ tree.t = "L")
        => \A e \in Insertions(tree) : AfterInsertion(e) = outcome

\* C4 as amended: the same, for the root list and for every walked list that
\* still fails direct receipt decode once the placeholder is in it.
C4_InsertionInContainer ==
    (Whole /\ tree.t = "L")
        => \A e \in Insertions(tree) : StillWalked(e) => AfterInsertion(e) = outcome

\* A placeholder put between the two receipts of a nested group, and the
\* three receipts came out as before.
C4_Witness ==
    /\ Whole
    /\ tree = Container(<<Container(<<R1, R2>>), R1>>)
    /\ <<<<1>>, 1>> \in Insertions(tree)
    /\ AfterInsertion(<<<<1>>, 1>>) = outcome
    /\ Len(outcome.receipts) = 3

\* The nesting depth K of a single receipt under the root, or -1.
WrapDepth ==
    IF \E k \in 0..(MaxWrap + 1) : tree = Container(<<Wrap(R1, k)>>)
    THEN CHOOSE k \in 0..(MaxWrap + 1) : tree = Container(<<Wrap(R1, k)>>)
    ELSE -1

\* C5: a receipt under K nested singleton lists yields that one receipt for
\* every K up to a depth bound, and DecodeDepthExceeded for every K beyond it;
\* the bound is taken below the deepest nesting of the inputs.
C5_DepthBound ==
    (Whole /\ WrapDepth >= 0)
        => \E bound \in 0..MaxWrap :
              /\ WrapDepth <= bound => outcome = OkWith(<<R1.rec>>)
              /\ WrapDepth > bound
                    => outcome.kind = "err" /\ outcome.err = "DecodeDepthExceeded"

\* What the code does at every depth the inputs reach: the receipt comes out.
C5_Unbounded == (Whole /\ WrapDepth >= 0) => outcome = OkWith(<<R1.rec>>)

\* C6: for every readable file, the zero-byte file and the file of the tag
\* byte alone included, from_file returns receipts or an error value: what
\* the decode of bytes 1..end gives; it never panics.
C6_NeverPanics ==
    (Done /\ readable)
        => /\ outcome.kind \in {"ok", "err"}
           /\ outcome = Returned(SubSeq(file, 2, Len(file)))

\* The receipts when only a list of exactly 16 children is a receipt and
\* every other list is walked as a container.
RECURSIVE ExactReceipts(_)
ExactReceipts(items) ==
    IF items = <<>> THEN <<>>
    ELSE (IF Head(items).role = "receipt" /\ Len(Head(items).c) = ReceiptFields
          THEN <<Head(items).rec>>
          ELSE ExactReceipts(Head(items).c))
         \o ExactReceipts(Tail(items))

\* C7: a list child is emitted as a receipt only when it has exactly 16
\* children; a list of fewer or of more children is walked as a container.
C7_Exactly16 ==
    (Whole /\ tree.role = "container") => outcome.receipts = ExactReceipts(tree.c)

\* C8: when the root is empty or is not a list, from_file returns an empty
\* receipt sequence and no error, whatever it logged.
C8_EmptyOrScalarRoot ==
    (Done /\ readable /\ file # <<>>
          /\ (Rlp_is_null(rlp_data) \/ Rlp_is_empty(rlp_data) \/ ~Rlp_is_list(rlp_data)))
        => outcome = OkWith(<<>>)

\* A scalar root: nothing was logged and nothing came out, without an error.
C8_Witness ==
    /\ Whole
    /\ tree = Stray
    /\ warnings = {}
    /\ outcome = OkWith(<<>>)

\* C9: the root is never attempted as a receipt: a root list with the shape
\* of a valid receipt does not yield that receipt, only what its children do.
C9_RootNotAReceipt ==
    (Whole /\ tree.role = "receipt")
        => /\ outcome.kind = "ok"
           /\ \A i \in DOMAIN outcome.receipts : outcome.receipts[i] # tree.rec
           /\ outcome.receipts = ValidReceipts(tree.c)

\* The root is the receipt R2: R2 did not come out, its logs child R1 did.
C9_Witness ==
    /\ Whole
    /\ tree = R2
    /\ Receipt_decode(rlp_data).ok
    /\ outcome.receipts = <<R1.rec>>

\* The lists emitted as receipts: those decoded directly, outermost first,
\* nothing below them.
Emitted(item) == item.role \in {"receipt", "long"}

RECURSIVE Outermost(_)
Outermost(items) ==
    IF items = <<>> THEN <<>>
    ELSE (IF Emitted(Head(items)) THEN <<Head(items)>>
          ELSE Outermost(Head(items).c))
         \o Outermost(Tail(items))

\* C10: a child decoded directly contributes exactly one receipt and is not
\* descended into: the receipts are those of the outermost decodable lists,
\* one each, and a receipt-shaped list inside one of them gives none.
C10_OnlyOutermost ==
    (Whole /\ tree.role = "container")
        => /\ outcome.kind = "ok"
           /\ Len(outcome.receipts) = Len(Outermost(tree.c))
           /\ \A i \in DOMAIN outcome.receipts :
                 outcome.receipts[i] = Outermost(tree.c)[i].rec

\* R2 carries the receipt-shaped list R1 in its logs: only R2 came out.
C10_Witness ==
    /\ Whole
    /\ tree = Container(<<R2>>)
    /\ Receipt_decode(R2.rec[6]).ok
    /\ outcome.receipts = <<R2.rec>>

\* from_file has the root view: line 144 was passed without a panic.
HasRoot == readable /\ pc \in {"log", "decode", "done"} /\ outcome.kind # "panic"

\* C11: decode_receipt_vec returns Ok for every root view, whole, truncated
\* or malformed: a failed direct decode is absorbed by walking the child and
\* no walk produces an error to propagate.  The only error from_file returns
\* is the I/O error of reading the file.
C11_OnlyIoError ==
    /\ HasRoot => decode_receipt_vec(rlp_data).ok
    /\ (Done /\ outcome.kind = "err") => (~readable /\ outcome.err = "IoError")

\* A root list whose child "hi" failed direct decode, and from_file
\* returned Ok with the receipt next to it.
C11_Witness ==
    /\ Whole
    /\ tree = Container(<<Stray, R1>>)
    /\ ~Receipt_decode(Encode(Stray)).ok
    /\ outcome = OkWith(<<R1.rec>>)

\* The nesting depth of an item: the most lists around any item of the tree,
\* the item itself counted when it is a list.
RECURSIVE ListDepth(_)
ListDepth(item) ==
    IF item.t # "L" THEN 0
    ELSE 1 + (IF item.c = <<>> THEN 0
              ELSE CHOOSE d \in {ListDepth(item.c[i]) : i \in DOMAIN item.c} :
                       \A i \in DOMAIN item.c : ListDepth(item.c[i]) <= d)

\* Each nested call walks an item strictly smaller than its caller's list.
StrictlySmaller ==
    \A i \in 2..Len(stack) : Len(stack[i].rlp) < Len(stack[i - 1].rlp)

\* No walk has had the same child yielded twice.
VisitedOnce ==
    \A i \in DOMAIN stack :
        \A a, b \in DOMAIN stack[i].seen :
            a # b => stack[i].seen[a] # stack[i].seen[b]

\* The calls nested in the root call are no more than the tree is deep.
NestedCalls == IF stack = <<>> THEN 0 ELSE Len(stack) - 1

WalkInv ==
    /\ StrictlySmaller
    /\ VisitedOnce
    /\ NestedCalls <= ListDepth(tree)

\* The walk taken step by step returns what decode_receipt_vec returns.
WalkAgrees == (Done /\ readable) => outcome = from_file(file)

\* C12: the decode of every finite buffer terminates; every nested call of
\* decode_receipt_vec is on an item strictly smaller than the list being
\* walked, no child is visited twice in a walk, and the nested calls never
\* exceed the nesting depth of the tree.
C12_Terminates == []WalkInv /\ <>Done

\* Three calls deep in a nested tree, a child of the innermost list visited.
C12_Witness ==
    /\ pc = "walk"
    /\ cut = 0
    /\ Len(stack) = 3
    /\ Top.seen = <<0>>
    /\ StrictlySmaller
====
